---- MODULE Spec2Model ----
(***************************************************************************)
(* Model of server/server.js: the local HTTP facade in front of a          *)
(* whatsapp-web.js client.  The client is the opaque capability            *)
(* {initialize, on(event), sendMessage}; its events and the settling of    *)
(* its promises are the environment.  Node runs every handler to its next  *)
(* await without interruption, so each action below is one such segment.   *)
(***************************************************************************)
EXTENDS Integers, Sequences, FiniteSets, TLC

(* ------------------------------ bounds -------------------------------- *)

\* qr events the client emits in one run (each carries a fresh payload 1..MaxQr)
MaxQr == 2
\* sendText requests that may be awaiting sendMessage or the delay at once
MaxReq == 2
\* longest raw phone number fed to normalizeNumber
MaxRawLen == 12
\* process.env.RATE_LIMIT_MAX of the modelled deployment (the default is 30)
RATE_LIMIT_MAX == 2

(* ------------------------- configuration ------------------------------ *)

\* process.env.MESSAGE_DELAY_MS || '2000'
MESSAGE_DELAY_MS == 2000
\* process.env.DEFAULT_COUNTRY_CODE || '55'
DEFAULT_COUNTRY_CODE == <<"5", "5">>
\* digits.length <= 11
MaxNationalLen == 11
\* the step by which the model's clock advances
TickMs == MESSAGE_DELAY_MS \div 2

\* a string is a sequence of characters; "" and an absent header are << >>
Null == << >>
TheKey == <<"k">>
ConfigKeys == {Null, TheKey}
IPs == {"ip1", "ip2"}
Slots == 1..MaxReq

VARIABLES
  API_KEY,        \* const API_KEY = process.env.API_KEY || ''
  isReady,        \* let isReady
  lastQrDataUrl,  \* let lastQrDataUrl (Null for null)
  qrEmitted,      \* number of qr events emitted; the n-th carries payload n
  encoding,       \* payloads whose qrcode.toDataURL promise is pending
  latestQr,       \* history: latest payload since the last ready/disconnected, 0 if none
  lastEvent,      \* history: the latest of ready / auth_failure / disconnected
  hits,           \* sendLimiter's store: ip -> requests counted in its window
  passed,         \* history: ip -> requests that reached the route's handler since the
                  \* ip's window began
  inflight,       \* slot -> the sendText call frame suspended at an await
  http,           \* the request handled, or the response completed, by the last step
  given,          \* the number a caller means and how they wrote it (SpecNorm)
  normalized      \* normalizeNumber's result (SpecNorm)

vars == <<API_KEY, isReady, lastQrDataUrl, qrEmitted, encoding, latestQr, lastEvent,
          hits, passed, inflight, http, given, normalized>>

connVars == <<isReady, lastQrDataUrl, qrEmitted, encoding, latestQr, lastEvent>>
normVars == <<given, normalized>>

(* ------------------------------ helpers ------------------------------- *)

Min(a, b) == IF a < b THEN a ELSE b
Max(a, b) == IF a > b THEN a ELSE b

Digits == {"0", "1", "2", "3", "4", "5", "6", "7", "8", "9"}
IsDigit(c) == c \in Digits

\* String.prototype.startsWith
StartsWith(s, p) == Len(s) >= Len(p) /\ SubSeq(s, 1, Len(p)) = p

\* qrcode.toDataURL(qr, {type: 'image/png', ...}): the PNG of the payload as a data URL
toDataURL(qr) == <<"data:image/png;base64,", qr>>

\* a || b on strings
JsOr(a, b) == IF a # Null THEN a ELSE b

\* a header value is a sequence of tokens: the word Bearer in either case, a
\* blank, or a character of a key
BearerWords == {"Bearer", "bearer"}
RECURSIVE DropBlanks(_)
DropBlanks(s) == IF s # << >> /\ Head(s) = " " THEN DropBlanks(Tail(s)) ELSE s

\* value.replace(/^Bearer\s+/i, '')
StripBearer(v) ==
  IF Len(v) >= 2 /\ v[1] \in BearerWords /\ v[2] = " "
  THEN DropBlanks(Tail(v))
  ELSE v

\* ensureApiKey without its first check: no configured key lets every request in
ensureApiKey_open(h) ==
  LET key == JsOr(JsOr(h.apikey, h.xapikey), StripBearer(h.authorization))
  IN IF API_KEY # Null /\ key # API_KEY THEN 401 ELSE 0

\* function ensureApiKey(req, res): 0 when it returns true, else the status it answered
ensureApiKey(h) ==
  IF API_KEY = Null THEN 500
  ELSE LET key == JsOr(JsOr(h.apikey, h.xapikey), StripBearer(h.authorization))
       IN IF key # API_KEY THEN 401 ELSE 0

\* function normalizeNumber(raw)
normalizeNumber(r) ==
  IF r = << >> THEN << >>
  ELSE LET digits == SelectSeq(r, IsDigit)
       IN IF digits = << >> THEN << >>
          ELSE IF /\ DEFAULT_COUNTRY_CODE # << >>
                  /\ ~StartsWith(digits, DEFAULT_COUNTRY_CODE)
                  /\ Len(digits) <= MaxNationalLen
               THEN DEFAULT_COUNTRY_CODE \o digits
               ELSE digits

(* --------------------------- requests --------------------------------- *)

NoHeaders == [apikey |-> Null, xapikey |-> Null, authorization |-> Null]
Hdr(a, x, z) == [apikey |-> a, xapikey |-> x, authorization |-> z]
HeaderCases ==
  { NoHeaders,
    Hdr(TheKey, Null, Null),
    Hdr(<<"z">>, TheKey, Null),
    Hdr(Null, TheKey, Null),
    Hdr(Null, <<"z">>, <<"Bearer", " ", "k">>),
    Hdr(Null, Null, <<"Bearer", " ", "k">>),
    Hdr(Null, Null, <<"bearer", " ", " ", "k">>),
    Hdr(Null, Null, <<"k">>),
    Hdr(Null, Null, <<"Bearer", "k">>),
    Hdr(Null, Null, <<"Bearer", " ", "z">>) }
GoodBadHeaders == { Hdr(TheKey, Null, Null), Hdr(<<"z">>, Null, Null) }

\* req.body of sendText: number (<< >> when missing) and whether textMessage.text is given
Body(n, t) == [number |-> n, text |-> t]
BodyCases ==
  { Body(<< >>, TRUE), Body(<<"-">>, TRUE), Body(<<"1", "9">>, FALSE),
    Body(<<"1", "9">>, TRUE) }
ValidBody == { Body(<<"1", "9">>, TRUE) }

NoHttp ==
  [phase |-> "none", ep |-> "none", ip |-> "none", h |-> NoHeaders, body |-> Body(<< >>, FALSE),
   status |-> 0, qr |-> Null, ready |-> "none", slot |-> 0, calls |-> 0]

\* a request handled by this step and the response res.status(..).json(..) gave it
\* (status 0: no response yet, the handler is suspended in `slot`)
Handled(ep, ip, h, b, status, qr, ready, slot, calls) ==
  [phase |-> "request", ep |-> ep, ip |-> ip, h |-> h, body |-> b,
   status |-> status, qr |-> qr, ready |-> ready, slot |-> slot, calls |-> calls]

\* the response a suspended sendText handler gives when it resumes
Completed(slot, status) ==
  [NoHttp EXCEPT !.phase = "completion", !.ep = "sendText", !.status = status,
                 !.slot = slot, !.calls = 1]

Bool(b) == IF b THEN "true" ELSE "false"

FreeFrame == [pc |-> "free", left |-> 0, to |-> << >>, hasId |-> FALSE]

(* ------------------------------- Init --------------------------------- *)

NoNumber == [national |-> << >>, withCC |-> FALSE, format |-> "bare"]

InitCommon ==
  /\ isReady = FALSE
  /\ lastQrDataUrl = Null
  /\ qrEmitted = 0
  /\ encoding = {}
  /\ latestQr = 0
  /\ lastEvent = "none"
  /\ hits = [ip \in IPs |-> 0]
  /\ passed = [ip \in IPs |-> 0]
  /\ inflight = [s \in Slots |-> FreeFrame]
  /\ http = NoHttp

Init ==
  /\ API_KEY \in ConfigKeys
  /\ InitCommon
  /\ given = NoNumber
  /\ normalized = << >>

(* --------------------------- client events ---------------------------- *)

\* client.on('qr', async (qr) => { ... await qrcode.toDataURL(qr, ...) : up to the await
ClientQr ==
  /\ qrEmitted < MaxQr
  /\ qrEmitted' = qrEmitted + 1
  /\ encoding' = encoding \cup {qrEmitted + 1}
  /\ latestQr' = qrEmitted + 1
  /\ http' = NoHttp
  /\ UNCHANGED <<API_KEY, isReady, lastQrDataUrl, lastEvent, hits, passed, inflight, normVars>>

\* ... lastQrDataUrl = <the awaited data URL> : the continuation of the qr handler
QrEncoded(q) ==
  /\ q \in encoding
  /\ encoding' = encoding \ {q}
  /\ lastQrDataUrl' = toDataURL(q)
  /\ http' = NoHttp
  /\ UNCHANGED <<API_KEY, isReady, qrEmitted, latestQr, lastEvent, hits, passed, inflight, normVars>>

\* ... catch (err) { console.error(...) } : toDataURL rejected
QrEncodeFailed(q) ==
  /\ q \in encoding
  /\ encoding' = encoding \ {q}
  /\ http' = NoHttp
  /\ UNCHANGED <<API_KEY, isReady, lastQrDataUrl, qrEmitted, latestQr, lastEvent, hits, passed,
                 inflight, normVars>>

\* client.on('ready')
ClientReady ==
  /\ isReady' = TRUE
  /\ lastQrDataUrl' = Null
  /\ latestQr' = 0
  /\ lastEvent' = "ready"
  /\ http' = NoHttp
  /\ UNCHANGED <<API_KEY, qrEmitted, encoding, hits, passed, inflight, normVars>>

\* auth_failure that only logs
ClientAuthFailure_keepsReady ==
  /\ lastEvent' = "auth_failure"
  /\ http' = NoHttp
  /\ UNCHANGED <<API_KEY, isReady, lastQrDataUrl, qrEmitted, encoding, latestQr, hits, passed,
                 inflight, normVars>>

\* client.on('auth_failure')
ClientAuthFailure ==
  /\ isReady' = FALSE
  /\ lastEvent' = "auth_failure"
  /\ http' = NoHttp
  /\ UNCHANGED <<API_KEY, lastQrDataUrl, qrEmitted, encoding, latestQr, hits, passed, inflight, normVars>>

\* client.on('disconnected')
ClientDisconnected ==
  /\ isReady' = FALSE
  /\ lastQrDataUrl' = Null
  /\ latestQr' = 0
  /\ lastEvent' = "disconnected"
  /\ http' = NoHttp
  /\ UNCHANGED <<API_KEY, qrEmitted, encoding, hits, passed, inflight, normVars>>

(* ------------------------ synchronous endpoints ----------------------- *)

Respond(r) ==
  /\ http' = r
  /\ UNCHANGED <<API_KEY, connVars, hits, passed, inflight, normVars>>

\* app.get('/')
GetRoot ==
  Respond(Handled("root", "ip1", NoHeaders, Body(<< >>, FALSE), 200, Null, Bool(isReady), 0, 0))

\* app.get('/status')
GetStatus ==
  Respond(Handled("status", "ip1", NoHeaders, Body(<< >>, FALSE), 200, Null, Bool(isReady), 0, 0))

\* GET /qr without the isReady check
QrAnswer_noReady ==
  IF lastQrDataUrl = Null THEN <<404, Null>> ELSE <<200, lastQrDataUrl>>

\* app.get('/qr'): the status and the qr field of the answer
QrAnswer ==
  IF isReady THEN <<400, Null>>
  ELSE IF lastQrDataUrl = Null THEN <<404, Null>>
  ELSE <<200, lastQrDataUrl>>

GetQr ==
  Respond(Handled("qr", "ip1", NoHeaders, Body(<< >>, FALSE), QrAnswer[1], QrAnswer[2], "none", 0, 0))

\* app.post('/instance/create'): the status and qrcode.base64 of the answer
CreateAnswer(h) ==
  IF ensureApiKey(h) # 0 THEN <<ensureApiKey(h), Null>>
  ELSE IF isReady THEN <<200, Null>>
  ELSE <<200, JsOr(lastQrDataUrl, Null)>>

PostInstanceCreate(h) ==
  Respond(Handled("create", "ip1", h, Body(<< >>, FALSE), CreateAnswer(h)[1], CreateAnswer(h)[2],
                  "none", 0, 0))

\* app.get('/instance/connect/:instance'): the status and base64 of the answer
ConnectAnswer(h) ==
  IF ensureApiKey(h) # 0 THEN <<ensureApiKey(h), Null>>
  ELSE IF isReady THEN <<200, Null>>
  ELSE IF lastQrDataUrl = Null THEN <<202, Null>>
  ELSE <<200, lastQrDataUrl>>

GetInstanceConnect(h) ==
  Respond(Handled("connect", "ip1", h, Body(<< >>, FALSE), ConnectAnswer(h)[1], ConnectAnswer(h)[2],
                  "none", 0, 0))

(* ------------------- POST /message/sendText/:instance ----------------- *)

\* sendLimiter (express-rate-limit, windowMs 60 s, max RATE_LIMIT_MAX), mounted on
\* /message ahead of the route: every request is counted against its ip
LimiterCount(ip) == [hits EXCEPT ![ip] = Min(hits[ip] + 1, RATE_LIMIT_MAX + 1)]
\* a limiter that lets one request more through
LimiterRejects_late(ip) == hits[ip] + 1 > RATE_LIMIT_MAX + 1

\* the request is answered 429 { error: 'Rate limit excedido' } when its count exceeds max
LimiterRejects(ip) == hits[ip] + 1 > RATE_LIMIT_MAX

\* the window of an ip ends and its count starts again
WindowExpire(ip) ==
  /\ hits[ip] > 0
  /\ hits' = [hits EXCEPT ![ip] = 0]
  /\ passed' = [passed EXCEPT ![ip] = 0]
  /\ http' = NoHttp
  /\ UNCHANGED <<API_KEY, connVars, inflight, normVars>>

\* sendText without the isReady check
SendTextEarly_noReady(h, b) ==
  IF ensureApiKey(h) # 0 THEN ensureApiKey(h)
  ELSE IF b.number = << >> \/ ~b.text THEN 400
  ELSE IF normalizeNumber(b.number) = << >> THEN 400
  ELSE 0

\* the handler up to `await client.sendMessage`: the status of an early return, or 0
SendTextEarly(h, b) ==
  IF ensureApiKey(h) # 0 THEN ensureApiKey(h)
  ELSE IF ~isReady THEN 503
  ELSE IF b.number = << >> \/ ~b.text THEN 400
  ELSE IF normalizeNumber(b.number) = << >> THEN 400
  ELSE 0

\* the lowest free slot of S holds the new call frame
FreeIn(S) == {s \in S : inflight[s].pc = "free"}
NewSlot(S) == CHOOSE s \in FreeIn(S) : \A t \in FreeIn(S) : s <= t

\* client.sendMessage(chatId, text) is called and the handler suspends on its promise
CallSendMessage(s, number) ==
  [inflight EXCEPT ![s] = [pc |-> "sending", left |-> 0, to |-> number, hasId |-> FALSE]]

\* history: one more request of ip reached the handler
Reached(ip) == [passed EXCEPT ![ip] = Min(@ + 1, RATE_LIMIT_MAX + 1)]

PostSendText(ip, h, b, S) ==
  /\ hits' = LimiterCount(ip)
  /\ IF LimiterRejects(ip)
     THEN /\ http' = Handled("sendText", ip, h, b, 429, Null, "none", 0, 0)
          /\ UNCHANGED <<inflight, passed>>
     ELSE IF SendTextEarly(h, b) # 0
     THEN /\ http' = Handled("sendText", ip, h, b, SendTextEarly(h, b), Null, "none", 0, 0)
          /\ passed' = Reached(ip)
          /\ UNCHANGED inflight
     ELSE /\ FreeIn(S) # {}
          /\ inflight' = CallSendMessage(NewSlot(S), normalizeNumber(b.number))
          /\ http' = Handled("sendText", ip, h, b, 0, Null, "none", NewSlot(S), 1)
          /\ passed' = Reached(ip)
  /\ UNCHANGED <<API_KEY, connVars, normVars>>

\* sendMessage resolved with `sent` (hasId: sent.id is defined):
\* the handler resumes and suspends on setTimeout(r, MESSAGE_DELAY_MS)
SendResolved(s, hasId) ==
  /\ inflight[s].pc = "sending"
  /\ inflight' = [inflight EXCEPT ![s].pc = "delaying", ![s].left = MESSAGE_DELAY_MS,
                                  ![s].hasId = hasId]
  /\ http' = NoHttp
  /\ UNCHANGED <<API_KEY, connVars, hits, passed, normVars>>

\* sendMessage rejected: catch (err) { res.status(500).json({ error: err.message }) }
SendRejected(s) ==
  /\ inflight[s].pc = "sending"
  /\ inflight' = [inflight EXCEPT ![s] = FreeFrame]
  /\ http' = Completed(s, 500)
  /\ UNCHANGED <<API_KEY, connVars, hits, passed, normVars>>

\* the status given once the delay is over: res.json({ key: { id: sent.id._serialized
\* || null }, status: 'PENDING' }), or the catch when sent.id is undefined (TypeError)
AfterDelay(f) == IF f.hasId THEN 200 ELSE 500

\* a handler that answers without waiting for the delay
DelayElapsed_early(s) ==
  /\ inflight[s].pc = "delaying"
  /\ inflight' = [inflight EXCEPT ![s] = FreeFrame]
  /\ http' = Completed(s, AfterDelay(inflight[s]))
  /\ UNCHANGED <<API_KEY, connVars, hits, passed, normVars>>

\* the timer of setTimeout fires no sooner than MESSAGE_DELAY_MS after it was set
DelayElapsed(s) ==
  /\ inflight[s].pc = "delaying"
  /\ inflight[s].left = 0
  /\ inflight' = [inflight EXCEPT ![s] = FreeFrame]
  /\ http' = Completed(s, AfterDelay(inflight[s]))
  /\ UNCHANGED <<API_KEY, connVars, hits, passed, normVars>>

\* TickMs of time pass
TimerPending == \E s \in Slots : inflight[s].pc = "delaying" /\ inflight[s].left > 0
Tick ==
  /\ TimerPending
  /\ inflight' = [s \in Slots |->
                    IF inflight[s].pc = "delaying"
                    THEN [inflight[s] EXCEPT !.left = Max(0, @ - TickMs)]
                    ELSE inflight[s]]
  /\ http' = NoHttp
  /\ UNCHANGED <<API_KEY, connVars, hits, passed, normVars>>

(* ------------------------- normalizeNumber alone ---------------------- *)

\* a caller's number: the national digits over {"1", "5"}, whether the country code is
\* written in front of them, and the punctuation
DigitStrings(n) == UNION {[1..k -> {"1", "5"}] : k \in 0..n}
Formats == {"bare", "plus", "dash"}
Numbers == [national : DigitStrings(MaxRawLen), withCC : BOOLEAN, format : Formats]

\* the string the caller puts in body.number
Written(g) ==
  LET d == IF g.withCC THEN DEFAULT_COUNTRY_CODE \o g.national ELSE g.national
  IN CASE g.format = "bare" -> d
       [] g.format = "plus" -> <<"+">> \o d
       [] g.format = "dash" -> IF d = << >> THEN <<"-">> ELSE <<Head(d)>> \o <<"-">> \o Tail(d)

InitNorm ==
  /\ API_KEY = TheKey
  /\ InitCommon
  /\ given \in Numbers
  /\ normalized = <<"?">>

\* const normalized = normalizeNumber(number)
Normalize ==
  /\ normalized = <<"?">>
  /\ normalized' = normalizeNumber(Written(given))
  /\ UNCHANGED <<API_KEY, connVars, hits, passed, inflight, http, given>>

(* --------------------------- specifications --------------------------- *)

\* the client emits a qr only once the encoding of the previous one has settled
ClientQrSpaced == encoding = {} /\ ClientQr

OneSend == { Body(<< >>, TRUE), Body(<<"1", "9">>, TRUE) }

\* the whole server: every client event and endpoint, one client address, one
\* sendText awaited at a time
Next ==
  \/ ClientQr
  \/ \E q \in 1..MaxQr : QrEncoded(q)
  \/ \E q \in 1..MaxQr : QrEncodeFailed(q)
  \/ ClientReady
  \/ ClientAuthFailure
  \/ ClientDisconnected
  \/ GetRoot
  \/ GetStatus
  \/ GetQr
  \/ \E h \in GoodBadHeaders : PostInstanceCreate(h)
  \/ \E h \in GoodBadHeaders : GetInstanceConnect(h)
  \/ \E h \in GoodBadHeaders, b \in OneSend : PostSendText("ip1", h, b, {1})
  \/ WindowExpire("ip1")
  \/ \E hasId \in BOOLEAN : SendResolved(1, hasId)
  \/ SendRejected(1)
  \/ DelayElapsed(1)
  \/ Tick

Spec == Init /\ [][Next]_vars

\* authentication: the three protected endpoints under every combination of headers
NextAuth ==
  \/ ClientQrSpaced
  \/ \E q \in 1..MaxQr : QrEncoded(q)
  \/ \E q \in 1..MaxQr : QrEncodeFailed(q)
  \/ ClientReady
  \/ ClientAuthFailure
  \/ ClientDisconnected
  \/ \E h \in HeaderCases : PostInstanceCreate(h)
  \/ \E h \in HeaderCases : GetInstanceConnect(h)
  \/ \E h \in HeaderCases, b \in ValidBody : PostSendText("ip1", h, b, {1})
  \/ WindowExpire("ip1")
  \/ \E hasId \in BOOLEAN : SendResolved(1, hasId)
  \/ SendRejected(1)
  \/ DelayElapsed(1)
  \/ Tick

SpecAuth == Init /\ [][NextAuth]_vars

\* pairing: every interleaving of the client's events with the QR encodings,
\* and the endpoints that serve the QR
NextQr ==
  \/ ClientQr
  \/ \E q \in 1..MaxQr : QrEncoded(q)
  \/ \E q \in 1..MaxQr : QrEncodeFailed(q)
  \/ ClientReady
  \/ ClientAuthFailure
  \/ ClientDisconnected
  \/ GetRoot
  \/ GetStatus
  \/ GetQr
  \/ \E h \in HeaderCases : PostInstanceCreate(h)
  \/ \E h \in HeaderCases : GetInstanceConnect(h)

SpecQr == Init /\ [][NextQr]_vars

\* sending: up to MaxReq sendText requests in flight at once
NextSend ==
  \/ ClientReady
  \/ ClientAuthFailure
  \/ ClientDisconnected
  \/ \E h \in GoodBadHeaders, b \in BodyCases : PostSendText("ip1", h, b, Slots)
  \/ WindowExpire("ip1")
  \/ \E s \in Slots, hasId \in BOOLEAN : SendResolved(s, hasId)
  \/ \E s \in Slots : SendRejected(s)
  \/ \E s \in Slots : DelayElapsed(s)
  \/ Tick

\* sendMessage settles (the proviso of the claim), time passes, and a due timer fires
Settle(s) == SendRejected(s) \/ \E hasId \in BOOLEAN : SendResolved(s, hasId)
FairSend ==
  /\ WF_vars(Tick)
  /\ \A s \in Slots : WF_vars(Settle(s)) /\ WF_vars(DelayElapsed(s))

SpecSend == Init /\ [][NextSend]_vars /\ FairSend

\* rate limiting: requests from several addresses
NextRate ==
  \/ ClientReady
  \/ ClientDisconnected
  \/ \E ip \in IPs, h \in GoodBadHeaders, b \in ValidBody : PostSendText(ip, h, b, Slots)
  \/ \E ip \in IPs : WindowExpire(ip)
  \/ \E s \in Slots, hasId \in BOOLEAN : SendResolved(s, hasId)
  \/ \E s \in Slots : SendRejected(s)
  \/ \E s \in Slots : DelayElapsed(s)
  \/ Tick

SpecRate == Init /\ [][NextRate]_vars

SpecNorm == InitNorm /\ [][Normalize]_vars

(* ------------------------------ claims -------------------------------- *)

Protected == {"create", "connect", "sendText"}

\* the key a request presents: apikey, else x-api-key, else Authorization without Bearer
PresentedKey(h) ==
  IF h.apikey # Null THEN h.apikey
  ELSE IF h.xapikey # Null THEN h.xapikey
  ELSE StripBearer(h.authorization)
AuthPasses(h) == API_KEY # Null /\ PresentedKey(h) = API_KEY

\* the last step handled a request to endpoint set E that the limiter let through
Request(E) == http.phase = "request" /\ http.ep \in E /\ http.status # 429
\* this step calls client.sendMessage from slot s
StartsSend(s) == inflight[s].pc # "sending" /\ inflight'[s].pc = "sending"
\* the request the last step handled left no sendMessage call behind
NoCall == http.calls = 0 /\ http.slot = 0

C7_StatusReportsConnection ==
  /\ isReady <=> lastEvent = "ready"
  /\ Request({"root", "status"}) => http.status = 200 /\ http.ready = Bool(lastEvent = "ready")

C7_Witness ==
  /\ Request({"status"}) /\ http.ready = "true"
  /\ encoding # {} /\ hits["ip1"] > 0

\* C3 as stated: while isReady, GET /qr answers 400 and create and connect carry no QR;
\* while not ready with no QR cached, GET /qr answers 404 and connect answers 202.
C3_AsStated ==
  /\ (isReady /\ Request({"qr"})) => http.status = 400
  /\ (isReady /\ Request({"create", "connect"})) => http.qr = Null
  /\ (~isReady /\ lastQrDataUrl = Null /\ Request({"qr"})) => http.status = 404
  /\ (~isReady /\ lastQrDataUrl = Null /\ Request({"connect"})) => http.status = 202

\* C3: as C3_AsStated, the 202 of connect being the answer to a request that passes
\* the API-key check.
C3_QrOnlyWhenNotReady ==
  /\ (isReady /\ Request({"qr"})) => http.status = 400 /\ http.qr = Null
  /\ (isReady /\ Request({"create", "connect"})) => http.qr = Null
  /\ (~isReady /\ lastQrDataUrl = Null /\ Request({"qr"})) => http.status = 404
  /\ (~isReady /\ lastQrDataUrl = Null /\ Request({"connect"}) /\ AuthPasses(http.h))
       => http.status = 202

C3_Witness ==
  /\ isReady /\ lastQrDataUrl # Null
  /\ Request({"qr"}) /\ http.status = 400

\* C8: whenever isReady is true, lastQrDataUrl is null.
C8_ReadyHasNoQr == isReady => lastQrDataUrl = Null

\* C9: whenever isReady is false and a QR is cached, it is the encoding of the latest
\* qr event since the last ready or disconnected event (judged once the encoding of
\* that latest event is no longer pending).
C9_QrNeverStale ==
  (~isReady /\ lastQrDataUrl # Null /\ latestQr \notin encoding)
    => (latestQr # 0 /\ lastQrDataUrl = toDataURL(latestQr))

\* C4: no two sendMessage calls are pending at once, and no sendMessage call starts
\* less than MESSAGE_DELAY_MS after an earlier one resolved.
C4_OneAtATime ==
  /\ [](Cardinality({s \in Slots : inflight[s].pc = "sending"}) <= 1)
  /\ [][ \A s \in Slots : StartsSend(s) =>
           \A t \in Slots : ~(inflight[t].pc = "delaying" /\ inflight[t].left > 0) ]_vars

\* C5: the result holds only digits, is empty when the input holds none, is
\* DEFAULT_COUNTRY_CODE followed by the digits for a national number of at most
\* MaxNationalLen digits written without country code, and is the digits as written for
\* a number written with the country code.
C5_Normalize ==
  normalized # <<"?">> =>
    /\ \A i \in 1..Len(normalized) : IsDigit(normalized[i])
    /\ SelectSeq(Written(given), IsDigit) = << >> => normalized = << >>
    /\ (~given.withCC /\ given.national # << >> /\ Len(given.national) <= MaxNationalLen)
         => normalized = DEFAULT_COUNTRY_CODE \o given.national
    /\ given.withCC => normalized = DEFAULT_COUNTRY_CODE \o given.national

\* C6: in one window of an ip at most RATE_LIMIT_MAX of its requests reach the handler;
\* a request beyond them is answered 429 whatever key it presents, with no sendMessage
\* call; and every sendMessage call is started by a request that reached the handler.
C6_RateLimit ==
  /\ [](\A ip \in IPs : passed[ip] <= RATE_LIMIT_MAX)
  /\ []((http.phase = "request" /\ http.ep = "sendText" /\ hits[http.ip] > RATE_LIMIT_MAX)
          => http.status = 429 /\ NoCall)
  /\ [][ \A s \in Slots : StartsSend(s) =>
           /\ \E ip \in IPs : passed'[ip] = passed[ip] + 1 /\ passed'[ip] <= RATE_LIMIT_MAX
           /\ \A t \in Slots \ {s} : ~StartsSend(t) ]_vars

C6_Witness ==
  /\ http.phase = "request" /\ http.status = 429 /\ ~AuthPasses(http.h)
  /\ passed["ip1"] = RATE_LIMIT_MAX /\ passed["ip2"] = RATE_LIMIT_MAX
  /\ \A s \in Slots : inflight[s].pc # "free"

\* number or textMessage.text is missing, or the number has no digits
BadBody(b) == b.number = << >> \/ ~b.text \/ SelectSeq(b.number, IsDigit) = << >>
\* slot s holds a sendText request that has had no response yet
Awaiting(s) == inflight[s].pc # "free"
\* the last step gave the response of the request held in slot s
Answered(s) == http.phase = "completion" /\ http.slot = s

\* what C10 says of every request, but for its 400 clause
C10_Common ==
  /\ \A s \in Slots : Awaiting(s) ~> Answered(s)
  /\ [](http.calls <= 1)
  /\ []((http.phase = "request" /\ http.ep = "sendText")
          => /\ http.status # 200
             /\ http.status = 0 <=> (http.slot # 0 /\ http.calls = 1)
             /\ http.slot # 0 => inflight[http.slot].pc = "sending")
  /\ [][ \A s \in Slots :
           /\ (http'.phase = "completion" /\ http'.slot = s)
                => Awaiting(s) /\ ~Awaiting(s)' /\ http'.status \in {200, 500}
           /\ (http'.phase = "completion" /\ http'.slot = s /\ http'.status = 200)
                => inflight[s].pc = "delaying" /\ inflight[s].left = 0
           /\ (Awaiting(s) /\ ~Awaiting(s)') => (http'.phase = "completion" /\ http'.slot = s)
           /\ (inflight[s].pc = "sending" /\ ~Awaiting(s)') => http'.status = 500
           /\ (inflight[s].pc = "delaying" => inflight'[s].pc # "sending")
           /\ (inflight[s].pc = "delaying" /\ inflight'[s].pc = "delaying")
                => inflight'[s].left <= inflight[s].left ]_vars

\* C10 as stated: every sendText request past the limiter gets exactly one response and at
\* most one sendMessage call; 200 only after sendMessage resolved and the delay elapsed,
\* 500 when it rejected, 400 with no call when the body is bad.
C10_AsStated ==
  /\ C10_Common
  /\ []((Request({"sendText"}) /\ BadBody(http.body)) => http.status = 400 /\ NoCall)

\* C10: as C10_AsStated, the 400 being the answer to a bad body in a request that
\* passes the API-key check while isReady is true.
C10_SendTextResponses ==
  /\ C10_Common
  /\ []((Request({"sendText"}) /\ AuthPasses(http.h) /\ isReady /\ BadBody(http.body))
          => http.status = 400 /\ NoCall)

C10_Witness ==
  /\ Answered(1) /\ http.status = 200
  /\ inflight[2].pc = "sending"

====
